---- MODULE Spec2Model ----
(***************************************************************************)
(* Model of xheap's Heap (src/heap.py): a list subclass that keeps a       *)
(* side dictionary _indexes (item -> position) and delegates its repairs   *)
(* to heapq._siftdown / heapq._siftup / heapq.heapify.                     *)
(*                                                                         *)
(* Positions are 0-based as in the source; TLA+ sequences are 1-based, so  *)
(* position k of the list is seq[k+1].                                     *)
(***************************************************************************)
EXTENDS Integers, Sequences, FiniteSets, TLC

\* Number of distinct items the callers draw from (items are 0..MaxItem-1).
MaxItem == 3
\* Length of the longest iterable handed to the constructor.  (The list never
\* grows beyond the number of items: push needs an item without an entry in
\* _indexes, and the list is never longer than _indexes.)
MaxLen == 3
\* Number of items of the disciplined caller (SpecDistinct), whose list has
\* no duplicates at construction.
MaxDistinct == 6
\* Number of calls the disciplined caller makes; calls are counted up to it.
MaxCalls == 2

Items == 0 .. (MaxItem - 1)
DistinctItems == 0 .. (MaxDistinct - 1)
\* "no item returned" (the call raised, or push returned None)
NoItem == -1

\* The relations a caller passes as cmp: the default x <= y, the max-order
\* x >= y, and a total preorder in which the distinct items 2k and 2k+1 tie.
CmpKinds == {"le", "ge", "tie"}

VARIABLES
    seq,      \* the list content (Heap is a list)
    idx,      \* self._indexes: a function from the registered items to positions
    cmpKind,  \* self.cmp
    op,       \* the last call: "init", "push", "pop", "remove", "replace",
              \* "pushpop", "check_invariant"
    arg,      \* its argument (an item, or the position for pop)
    ret,      \* the item it returned, NoItem if none (for check_invariant: the
              \* position its exception reports)
    err,      \* "ok", or the exception the call ended with
    pseq,     \* the list before the last call (the iterable, for "init")
    pidx,     \* _indexes before the last call
    calls     \* the number of calls made so far, counted up to MaxCalls

vars == <<seq, idx, cmpKind, op, arg, ret, err, pseq, pidx, calls>>

----------------------------------------------------------------------------
\* self.cmp(x, y)
Cmp(kind, x, y) ==
    CASE kind = "le" -> x <= y
      [] kind = "ge" -> x >= y
      [] OTHER -> (x \div 2) <= (y \div 2)

\* heapq's comparison of two items: the built-in x < y, whatever self.cmp is
cmp_lt(x, y) == x < y

Range(s) == {s[i] : i \in 1 .. Len(s)}

EmptyIndex == [v \in {} |-> 0]

\* {value: index for index, value in enumerate(self)}: the last position wins
Enumerate(s) ==
    [v \in Range(s) |->
        CHOOSE k \in 0 .. (Len(s) - 1) :
            /\ s[k + 1] = v
            /\ \A j \in 0 .. (Len(s) - 1) : s[j + 1] = v => j <= k]

\* self[k]
GetItem(h, k) == h.seq[k + 1]

\* Heap.__setitem__: self._indexes[value] = key, then list.__setitem__
SetItem(h, key, value) ==
    [seq |-> [h.seq EXCEPT ![key + 1] = value],
     idx |-> [v \in (DOMAIN h.idx) \cup {value} |->
                 IF v = value THEN key ELSE h.idx[v]]]

\* heapq._siftdown(heap, startpos, pos): move heap[pos] toward the root
RECURSIVE SiftdownLoop(_, _, _, _)
SiftdownLoop(h, startpos, pos, newitem) ==
    LET parentpos == (pos - 1) \div 2 IN
    IF pos > startpos /\ cmp_lt(newitem, GetItem(h, parentpos))
    THEN SiftdownLoop(SetItem(h, pos, GetItem(h, parentpos)),
                      startpos, parentpos, newitem)
    ELSE SetItem(h, pos, newitem)

siftdown(h, startpos, pos) == SiftdownLoop(h, startpos, pos, GetItem(h, pos))

\* heapq._siftup(heap, pos): bubble the smaller child up until a leaf, then
\* put the item there and _siftdown it back toward pos
RECURSIVE SiftupLoop(_, _, _)
SiftupLoop(h, pos, endpos) ==
    LET childpos == 2 * pos + 1
        rightpos == childpos + 1
    IN IF childpos < endpos
       THEN LET c == IF rightpos < endpos
                        /\ ~cmp_lt(GetItem(h, childpos), GetItem(h, rightpos))
                     THEN rightpos ELSE childpos
            IN SiftupLoop(SetItem(h, pos, GetItem(h, c)), c, endpos)
       ELSE [h |-> h, pos |-> pos]

\* _siftup without its 'heap[pos] = newitem': the item sifted is not put back
\* into the leaf that was emptied
siftupDropsItem(h, pos) ==
    LET r == SiftupLoop(h, pos, Len(h.seq))
    IN siftdown(r.h, pos, r.pos)

siftup(h, pos) ==
    LET newitem == GetItem(h, pos)
        r == SiftupLoop(h, pos, Len(h.seq))
    IN siftdown(SetItem(r.h, r.pos, newitem), pos, r.pos)

\* heapq.heapify: for i in reversed(range(n//2)): _siftup(x, i)
RECURSIVE HeapifyLoop(_, _)
HeapifyLoop(h, i) == IF i < 0 THEN h ELSE HeapifyLoop(siftup(h, i), i - 1)

\* Heap.heapify.  heapq.heapify is the C function of _heapq where the
\* interpreter has it (it moves the list's slots directly, without
\* __setitem__, so _indexes keeps the enumeration of the input) and the
\* Python loop over _siftup otherwise; both produce the same list.
heapify(s, native) ==
    LET h0 == [seq |-> s, idx |-> Enumerate(s)]
        r == HeapifyLoop(h0, (Len(s) \div 2) - 1)
    IN IF native THEN [seq |-> r.seq, idx |-> h0.idx] ELSE r

Result(h, r, e) == [seq |-> h.seq, idx |-> h.idx, ret |-> r, err |-> e]

\* Heap.push
push(h, kind, item) ==
    IF item \in DOMAIN h.idx
    THEN Result(h, NoItem, "RuntimeError")
    ELSE LET h1 == [seq |-> Append(h.seq, item), idx |-> h.idx]
         IN Result(siftdown(h1, 0, Len(h1.seq) - 1), NoItem, "ok")

\* the position Heap.pop compares the relocated element with
DecisionPos(index) == (index - 1) \div 4

\* Heap.pop(index)
pop(h, kind, index) ==
    IF Len(h.seq) = 0
    THEN Result(h, NoItem, "IndexError")
    ELSE LET lastelt == h.seq[Len(h.seq)]
             h1 == [seq |-> SubSeq(h.seq, 1, Len(h.seq) - 1), idx |-> h.idx]
         IN IF index = Len(h1.seq)
            THEN Result(h1, lastelt, "ok")
            ELSE IF index > Len(h1.seq)
            THEN Result(h1, NoItem, "IndexError")
            ELSE LET returnitem == GetItem(h1, index)
                     h2 == SetItem(h1, index, lastelt)
                     h3 == IF index = 0
                              \/ Cmp(kind, GetItem(h2, DecisionPos(index)), lastelt)
                           THEN siftup(h2, index)
                           ELSE siftdown(h2, 0, index)
                 IN Result(h3, returnitem, "ok")

\* Heap.remove
remove(h, kind, item) ==
    IF item \notin DOMAIN h.idx
    THEN Result(h, NoItem, "KeyError")
    ELSE LET h1 == [seq |-> h.seq,
                    idx |-> [v \in (DOMAIN h.idx) \ {item} |-> h.idx[v]]]
         IN pop(h1, kind, h.idx[item])

\* replace with the slot written before the top is read: on an empty list
\* __setitem__ registers the item and only then raises
replaceWritesFirst(h, kind, item) ==
    IF Len(h.seq) = 0
    THEN Result([seq |-> h.seq,
                 idx |-> [v \in (DOMAIN h.idx) \cup {item} |->
                             IF v = item THEN 0 ELSE h.idx[v]]],
                NoItem, "IndexError")
    ELSE Result(siftup(SetItem(h, 0, item), 0), GetItem(h, 0), "ok")

\* Heap.replace
replace(h, kind, item) ==
    IF Len(h.seq) = 0
    THEN Result(h, NoItem, "IndexError")
    ELSE Result(siftup(SetItem(h, 0, item), 0), GetItem(h, 0), "ok")

\* PushpopSwaps with the arguments of cmp exchanged
PushpopSwapsExchanged(h, kind, item) ==
    Len(h.seq) > 0 /\ Cmp(kind, item, GetItem(h, 0))

\* the test of Heap.pushpop that decides the exchange with the top
PushpopSwaps(h, kind, item) == Len(h.seq) > 0 /\ Cmp(kind, GetItem(h, 0), item)

\* Heap.pushpop
pushpop(h, kind, item) ==
    IF PushpopSwaps(h, kind, item)
    THEN Result(siftup(SetItem(h, 0, item), 0), GetItem(h, 0), "ok")
    ELSE Result(h, item, "ok")

\* the scan of check_invariant that never looks at position 1
\* (range(len(self)-1, 1, -1))
RECURSIVE CheckLoopStopsEarly(_, _, _)
CheckLoopStopsEarly(s, kind, index) ==
    IF index < 2 THEN 0
    ELSE LET parent_index == (index - 1) \div 2 IN
         IF Cmp(kind, s[parent_index + 1], s[index + 1])
         THEN CheckLoopStopsEarly(s, kind, index - 1)
         ELSE index

\* the scan of Heap.check_invariant, for index in range(len(self)-1, 0, -1):
\* the position it breaks at, 0 if the loop ends without a break
RECURSIVE CheckLoop(_, _, _)
CheckLoop(s, kind, index) ==
    IF index < 1 THEN 0
    ELSE LET parent_index == (index - 1) \div 2 IN
         IF Cmp(kind, s[parent_index + 1], s[index + 1])
         THEN CheckLoop(s, kind, index - 1)
         ELSE index

\* Heap.check_invariant
check_invariant(h, kind) ==
    LET index == CheckLoop(h.seq, kind, Len(h.seq) - 1)
    IN IF index = 0 THEN Result(h, NoItem, "ok")
       ELSE Result(h, index, "Exception")

----------------------------------------------------------------------------
Heap == [seq |-> seq, idx |-> idx]

NoDuplicates(s) == \A i, j \in 1 .. Len(s) : s[i] = s[j] => i = j

\* the sequences of distinct items of S of length at most n
RECURSIVE DistinctSeqs(_, _)
DistinctSeqs(S, n) ==
    IF n = 0 THEN {<<>>}
    ELSE LET shorter == DistinctSeqs(S, n - 1)
         IN shorter \cup
            UNION {{Append(s, x) : x \in S \ Range(s)} :
                      s \in {t \in shorter : Len(t) = n - 1}}

\* the iterables handed to the constructor: distinct items
Iterables == DistinctSeqs(Items, MaxLen)
DistinctIterables == DistinctSeqs(DistinctItems, MaxDistinct)

\* Heap.__init__
Init ==
    \E s \in Iterables, kind \in CmpKinds, native \in BOOLEAN :
        LET h == heapify(s, native) IN
        /\ seq = h.seq
        /\ idx = h.idx
        /\ cmpKind = kind
        /\ op = "init"
        /\ arg = NoItem
        /\ ret = NoItem
        /\ err = "ok"
        /\ pseq = s
        /\ pidx = EmptyIndex
        /\ calls = 0

Apply(name, a, r) ==
    /\ seq' = r.seq
    /\ idx' = r.idx
    /\ ret' = r.ret
    /\ err' = r.err
    /\ op' = name
    /\ arg' = a
    /\ pseq' = seq
    /\ pidx' = idx
    /\ calls' = IF calls < MaxCalls THEN calls + 1 ELSE calls
    /\ UNCHANGED cmpKind

\* heap.push(item)
Push(item) ==
    /\ item \in Items \cup DistinctItems
    /\ Apply("push", item, push(Heap, cmpKind, item))

\* heap.pop(index), at a position of the list or at the first one beyond it
Pop(index) ==
    /\ index \in 0 .. Len(seq)
    /\ Apply("pop", index, pop(Heap, cmpKind, index))

\* heap.remove(item)
Remove(item) ==
    /\ item \in Items \cup DistinctItems
    /\ Apply("remove", item, remove(Heap, cmpKind, item))

\* heap.replace(item)
Replace(item) ==
    /\ item \in Items \cup DistinctItems
    /\ Apply("replace", item, replace(Heap, cmpKind, item))

\* heap.pushpop(item)
Pushpop(item) ==
    /\ item \in Items \cup DistinctItems
    /\ Apply("pushpop", item, pushpop(Heap, cmpKind, item))

\* Any call with any argument, in any order.
Next ==
    \/ \E item \in Items : Push(item)
    \/ \E index \in 0 .. MaxItem : Pop(index)
    \/ \E item \in Items : Remove(item)
    \/ \E item \in Items : Replace(item)
    \/ \E item \in Items : Pushpop(item)

Spec == Init /\ [][Next]_vars

----------------------------------------------------------------------------
\* The disciplined caller: the default relation, items kept distinct (only
\* absent items are inserted, only present ones removed) and pop only at
\* positions of the list.  Its heaps are larger than those of Spec.
InitDistinct ==
    \E s \in DistinctIterables, native \in BOOLEAN :
        LET h == heapify(s, native) IN
        /\ seq = h.seq
        /\ idx = h.idx
        /\ cmpKind = "le"
        /\ op = "init"
        /\ arg = NoItem
        /\ ret = NoItem
        /\ err = "ok"
        /\ pseq = s
        /\ pidx = EmptyIndex
        /\ calls = 0

PushNew ==
    /\ calls < MaxCalls
    /\ \E item \in DistinctItems \ Range(seq) : Push(item)

PopAt ==
    /\ calls < MaxCalls
    /\ \E index \in 0 .. (Len(seq) - 1) : Pop(index)

RemovePresent ==
    /\ calls < MaxCalls
    /\ \E item \in Range(seq) : Remove(item)

ReplaceNew ==
    /\ calls < MaxCalls
    /\ \E item \in DistinctItems \ Range(seq) : Replace(item)

PushpopNew ==
    /\ calls < MaxCalls
    /\ \E item \in DistinctItems \ Range(seq) : Pushpop(item)

NextDistinct == PushNew \/ PopAt \/ RemovePresent \/ ReplaceNew \/ PushpopNew

SpecDistinct == InitDistinct /\ [][NextDistinct]_vars

----------------------------------------------------------------------------
\* The heap invariant of a list under a relation: no child precedes its parent.
HeapInvariant(kind, s) ==
    \A k \in 1 .. (Len(s) - 1) : Cmp(kind, s[((k - 1) \div 2) + 1], s[k + 1])

\* C1: with the default relation and the items kept distinct, the heap
\* invariant holds after construction and after every call.
C1_InvariantPreserved ==
    (cmpKind = "le" /\ NoDuplicates(seq)) => HeapInvariant(cmpKind, seq)

\* C2: after construction and after every call, _indexes maps every item of
\* the list to the position it is at.
C2_IndexMapsPosition ==
    \A k \in 0 .. (Len(seq) - 1) :
        seq[k + 1] \in DOMAIN idx /\ idx[seq[k + 1]] = k

\* C3: remove(x) of an item x of the list returns x, shortens the list by
\* one, keeps every other item, and leaves x neither in the list nor in
\* _indexes.
C3_RemovePresent ==
    (op = "remove" /\ arg \in Range(pseq)) =>
        /\ err = "ok"
        /\ ret = arg
        /\ Len(seq) = Len(pseq) - 1
        /\ Range(pseq) \ {arg} \subseteq Range(seq)
        /\ arg \notin Range(seq)
        /\ arg \notin DOMAIN idx

\* C4: remove(x) of an item that is not in the list raises the not-found
\* error (KeyError), returns nothing and changes neither the list nor
\* _indexes.
C4_RemoveAbsent ==
    (op = "remove" /\ arg \notin Range(pseq)) =>
        /\ err = "KeyError"
        /\ ret = NoItem
        /\ seq = pseq
        /\ idx = pidx

\* C5: push(x) of an item that is not in the list succeeds, lengthens the
\* list by one and leaves x in the list and in _indexes; the duplicate error
\* (RuntimeError) is raised only for an item of the list.
C5_PushAbsent ==
    /\ (op = "push" /\ arg \notin Range(pseq)) =>
            /\ err = "ok"
            /\ Len(seq) = Len(pseq) + 1
            /\ arg \in Range(seq)
            /\ arg \in DOMAIN idx
    /\ (op = "push" /\ err = "RuntimeError") => arg \in Range(pseq)

\* C6: push(x) of an item of the list raises the duplicate error and changes
\* neither the list (length, content, order, invariant) nor _indexes.
C6_PushDuplicate ==
    (op = "push" /\ arg \in Range(pseq)) =>
        /\ err = "RuntimeError"
        /\ seq = pseq
        /\ idx = pidx

\* C7: pop() on a heap of distinct items returns an item of the heap that is
\* at least as good, under the heap's relation, as every item that remains,
\* and takes out that item only (so n pops return every item once, in order).
C7_SortedExtraction ==
    (op = "pop" /\ arg = 0 /\ Len(pseq) > 0 /\ NoDuplicates(pseq)) =>
        /\ err = "ok"
        /\ ret \in Range(pseq)
        /\ Range(seq) = Range(pseq) \ {ret}
        /\ Len(seq) = Len(pseq) - 1
        /\ \A y \in Range(seq) : Cmp(cmpKind, ret, y)

\* C8: for every total order passed as cmp (x <= y or x >= y) and distinct
\* items, the heap invariant under that relation holds after construction
\* and after every call.
C8_InvariantUnderCmp ==
    (cmpKind \in {"le", "ge"} /\ NoDuplicates(seq)) => HeapInvariant(cmpKind, seq)

\* C9: replace(y) on a non-empty heap, y not in it, returns the former top,
\* keeps the length, and leaves y in the heap, the returned item out of it
\* and every other item in it.
C9_ReplaceSemantics ==
    (op = "replace" /\ Len(pseq) > 0 /\ arg \notin Range(pseq)) =>
        /\ err = "ok"
        /\ ret = pseq[1]
        /\ Len(seq) = Len(pseq)
        /\ arg \in Range(seq)
        /\ ret \notin Range(seq)
        /\ Range(pseq) \ {ret} \subseteq Range(seq)

\* C10 as stated: pushpop(y) returns y and changes neither the list nor
\* _indexes whenever the heap is empty or cmp(y, top) holds.
C10_PushpopNoopOriginal ==
    (op = "pushpop" /\ (Len(pseq) = 0 \/ Cmp(cmpKind, arg, pseq[1]))) =>
        /\ err = "ok"
        /\ ret = arg
        /\ seq = pseq
        /\ idx = pidx

\* C10 amended: pushpop(y) returns y and changes neither the list nor
\* _indexes whenever the heap is empty or cmp(top, y) does not hold.
C10_PushpopNoop ==
    (op = "pushpop" /\ (Len(pseq) = 0 \/ ~Cmp(cmpKind, pseq[1], arg))) =>
        /\ err = "ok"
        /\ ret = arg
        /\ seq = pseq
        /\ idx = pidx

\* C10 witness: a pushpop on a non-empty heap whose top is not at least as
\* good as the item, under a relation with ties, has returned.
C10_Witness ==
    /\ op = "pushpop"
    /\ cmpKind = "tie"
    /\ Len(pseq) > 1
    /\ ~Cmp(cmpKind, pseq[1], arg)
    /\ ret = arg

----------------------------------------------------------------------------
\* the heap the last call was made on
PreHeap == [seq |-> pseq, idx |-> pidx]

\* C11: for an item y that is not in the heap, pushpop(y) does what push(y)
\* followed by pop() does: both succeed, return the same item and leave the
\* same items, the heap invariant holds afterwards, and the length of the
\* list is the one before the call.
C11_PushpopAsPushPop ==
    (op = "pushpop" /\ arg \notin Range(pseq)) =>
        LET pushed == push(PreHeap, cmpKind, arg)
            popped == pop(pushed, cmpKind, 0)
        IN /\ err = "ok"
           /\ pushed.err = "ok"
           /\ popped.err = "ok"
           /\ ret = popped.ret
           /\ Range(seq) = Range(popped.seq)
           /\ HeapInvariant(cmpKind, seq)
           /\ Len(seq) = Len(pseq)

\* C12: pop() and replace(item) on an empty heap raise the empty-heap error
\* (IndexError), return no item and leave the list empty and _indexes as it
\* was (no entry for the argument of replace is added).
C12_EmptyHeapErrors ==
    (op \in {"pop", "replace"} /\ Len(pseq) = 0) =>
        /\ err = "IndexError"
        /\ ret = NoItem
        /\ seq = <<>>
        /\ idx = pidx

\* C12 witness: replace of an unregistered item on an empty heap has raised.
C12_Witness ==
    /\ op = "replace"
    /\ Len(pseq) = 0
    /\ arg \notin DOMAIN pidx
    /\ err = "IndexError"

----------------------------------------------------------------------------
\* The caller that hands any collection to the constructor, equal items
\* included, and then makes any call.
RECURSIVE AllSeqs(_, _)
AllSeqs(S, n) ==
    IF n = 0 THEN {<<>>}
    ELSE LET shorter == AllSeqs(S, n - 1)
         IN shorter \cup
            UNION {{Append(s, x) : x \in S} :
                      s \in {t \in shorter : Len(t) = n - 1}}

AnyIterables == AllSeqs(Items, MaxLen)

InitDup ==
    \E s \in AnyIterables, kind \in CmpKinds, native \in BOOLEAN :
        LET h == heapify(s, native) IN
        /\ seq = h.seq
        /\ idx = h.idx
        /\ cmpKind = kind
        /\ op = "init"
        /\ arg = NoItem
        /\ ret = NoItem
        /\ err = "ok"
        /\ pseq = s
        /\ pidx = EmptyIndex
        /\ calls = 0

SpecDup == InitDup /\ [][Next]_vars

\* C13: construction from a collection that holds two equal items fails with
\* the duplicate-item error (RuntimeError), so no constructed heap holds
\* duplicates.
C13_ConstructRejectsDuplicates ==
    op = "init" =>
        /\ ~NoDuplicates(pseq) => err = "RuntimeError"
        /\ err = "ok" => NoDuplicates(seq)

\* C14: a call that ends with an error leaves the list and _indexes exactly
\* as they were before the call.
C14_AtomicOnFailure ==
    (op # "init" /\ err # "ok") => (seq = pseq /\ idx = pidx)

\* the parent of a position
ParentPos(index) == (index - 1) \div 2

\* the list after the last element of h was moved into the slot at index and
\* repaired as C15 says: toward the leaves if cmp(parent, relocated) holds,
\* toward the root otherwise
RepairedByParent(h, kind, index) ==
    LET lastelt == h.seq[Len(h.seq)]
        h1 == [seq |-> SubSeq(h.seq, 1, Len(h.seq) - 1), idx |-> h.idx]
        h2 == SetItem(h1, index, lastelt)
    IN IF Cmp(kind, GetItem(h2, ParentPos(index)), lastelt)
       THEN siftup(h2, index).seq
       ELSE siftdown(h2, 0, index).seq

\* C15: pop(position) with 0 < position < size-1 repairs in the direction
\* decided by comparing the relocated element with the slot's parent, and the
\* repair restores the heap invariant of a heap that satisfied it.
C15_RepairDirection ==
    (op = "pop" /\ err = "ok" /\ 0 < arg /\ arg < Len(pseq) - 1) =>
        /\ seq = RepairedByParent(PreHeap, cmpKind, arg)
        /\ HeapInvariant(cmpKind, pseq) => HeapInvariant(cmpKind, seq)

\* C16: after construction from distinct items and after every call, replace
\* and pushpop of an item of the heap included, no item occurs twice in the
\* list.
C16_NoDuplicateItems == NoDuplicates(seq)

----------------------------------------------------------------------------
\* The verifier on any content of the list: a Heap whose list holds any
\* sequence of items (Heap is a list, and check_invariant is there to detect
\* a list that is not a heap), on which check_invariant() is called.
InitContents ==
    \E s \in AnyIterables, kind \in CmpKinds :
        /\ seq = s
        /\ idx = Enumerate(s)
        /\ cmpKind = kind
        /\ op = "init"
        /\ arg = NoItem
        /\ ret = NoItem
        /\ err = "ok"
        /\ pseq = s
        /\ pidx = EmptyIndex
        /\ calls = 0

\* heap.check_invariant()
CheckInvariant ==
    /\ op # "check_invariant"
    /\ Apply("check_invariant", NoItem, check_invariant(Heap, cmpKind))

SpecCheck == InitContents /\ [][CheckInvariant]_vars

\* position k of the list s violates the heap invariant under the relation
Violates(kind, s, k) == ~Cmp(kind, s[((k - 1) \div 2) + 1], s[k + 1])

\* C17: check_invariant() raises exactly when some position k > 0 violates
\* the invariant, the position it reports is the largest violating one, and
\* it changes neither the list nor _indexes.
C17_CheckInvariantExact ==
    op = "check_invariant" =>
        /\ err \in {"ok", "Exception"}
        /\ err = "Exception" <=> \E k \in 1 .. (Len(pseq) - 1) : Violates(cmpKind, pseq, k)
        /\ err = "Exception" =>
              /\ ret \in 1 .. (Len(pseq) - 1)
              /\ Violates(cmpKind, pseq, ret)
              /\ \A k \in (ret + 1) .. (Len(pseq) - 1) : ~Violates(cmpKind, pseq, k)
        /\ err = "ok" => ret = NoItem
        /\ seq = pseq
        /\ idx = pidx

\* C17 witness: on a list with two violating positions check_invariant has
\* raised and reported the larger one.
C17_Witness ==
    /\ op = "check_invariant"
    /\ err = "Exception"
    /\ Len(pseq) = 3
    /\ Violates(cmpKind, pseq, 1)
    /\ ret = 2

\* C18: after construction and after every call, the keys of _indexes are
\* exactly the items of the list.
C18_NoStaleEntries == DOMAIN idx = Range(seq)

\* the number of occurrences of the item v in the list s
Count(s, v) == Cardinality({i \in 1 .. Len(s) : s[i] = v})

\* 1 if the item x is v, else 0
One(x, v) == IF x = v THEN 1 ELSE 0

AllItems == Items \cup DistinctItems

\* C19: a successful push(x) adds exactly x to the items of the list, a
\* successful pop(position) or remove(x) takes out exactly the returned item,
\* and replace(y) or pushpop(y) take out the returned item and put in y;
\* every other item occurs as often as before.
C19_ContentsConserved ==
    /\ (op = "push" /\ err = "ok") =>
          \A v \in AllItems : Count(seq, v) = Count(pseq, v) + One(arg, v)
    /\ (op \in {"pop", "remove"} /\ err = "ok") =>
          \A v \in AllItems : Count(seq, v) + One(ret, v) = Count(pseq, v)
    /\ (op \in {"replace", "pushpop"} /\ err = "ok") =>
          \A v \in AllItems :
              Count(seq, v) + One(ret, v) = Count(pseq, v) + One(arg, v)

\* C19 witness: a pop() at the top of a three-item heap has moved the last
\* element into slot 0 and repaired the list.
C19_Witness ==
    /\ op = "pop"
    /\ arg = 0
    /\ err = "ok"
    /\ Len(pseq) = 3
    /\ seq # SubSeq(pseq, 2, 3)
    /\ Count(seq, ret) = 0

----------------------------------------------------------------------------
TypeOK ==
    /\ seq \in Seq(Items \cup DistinctItems)
    /\ Len(seq) <= Cardinality(DOMAIN idx)
    /\ DOMAIN idx \subseteq Items \cup DistinctItems
    /\ cmpKind \in CmpKinds
====
